---- MODULE Spec2Model ----
(***************************************************************************)
(* A model of the explicit-free-list allocator of mm.c (single list,       *)
(* footerless allocated blocks) and of its segregated-list variant.        *)
(*                                                                         *)
(* The heap is the provider's byte region, kept as a sequence of 32-bit    *)
(* words: word i (1-based) lives at byte address HeapLo + 4*(i-1).         *)
(* Pointers are byte addresses; NULL is 0 and the provider's failure        *)
(* value, the all-ones pointer, is -1.                                     *)
(*                                                                         *)
(* size_t values are 64 bits wide.  A value v is kept as its residue       *)
(* nearest zero: a non-negative integer stands for itself and a negative   *)
(* integer r stands for 2^64 + r.  Addition and subtraction of such        *)
(* residues are exact modulo 2^64, floor division by a power of two that   *)
(* divides 2^64 keeps the low bits and the product with that power, and    *)
(* comparisons go through ULT, the unsigned order.                         *)
(***************************************************************************)
EXTENDS Integers, Sequences, FiniteSets, TLC

VARIABLES
    variant,    \* "mm" (mm.c) or "seg" (the segregated variant)
    inited,     \* mm_init has returned 0
    mem,        \* the provider's region, one entry per 32-bit word
    heap_ptr,   \* static char *heap_ptr
    heap_end,   \* static char *heap_end
    free_blks,  \* static char *free_blks (mm.c: entry 0), free_blks[20] (segregated)
    fault,      \* a store went outside the provider's region
    live,       \* pointers returned to the caller and not yet released
    fresh,      \* the word found in memory the provider has just handed out
    crashed,    \* the process was stopped by an access through a null pointer
    limit,      \* the bytes the provider's region can grow to
    todo        \* the calls a caller that follows a script has still to make

vars == <<variant, inited, mem, heap_ptr, heap_end, free_blks, fault, live, fresh, crashed,
          limit, todo>>

(***************************************************************************)
(* Program constants                                                       *)
(***************************************************************************)
WSIZE == 4
DSIZE == 8
ESIZE == 2 * DSIZE
MAX_FIT == 6
MAX_NFIT == 28
SEG_MAX_FIT == 42
max_level == 17
threshold == <<32, 48, 64, 128, 256, 512, 1024, 2048, 4096, 8192, 16384, 32768,
               65536, 131072, 262144, 524288, 1048576>>
NULL == 0
SBRK_FAIL == 0 - 1

(***************************************************************************)
(* The address provider (memlib): a region starting at HeapLo that can     *)
(* grow up to limit bytes; MaxHeap is the limit of the general runs.       *)
(***************************************************************************)
HeapLo == 64
MaxHeap == 72

\* contents of memory the provider hands out (it is not initialised)
FreshWords == {0, 2147483647}

\* the request sizes the caller draws from; -1 stands for 2^64 - 1
Requests == {12, 13, 21, 0 - 1}

\* the (nmemb, size) pairs the caller passes to calloc
CallocArgs == {<<0, 5>>, <<1, 13>>}

\* the word the caller stores at payload word i
DataWord == 724249387

(***************************************************************************)
(* Bit operations on 32-bit words                                          *)
(***************************************************************************)
RECURSIVE BitOr(_, _)
BitOr(a, b) ==
    IF a = 0 THEN b
    ELSE IF b = 0 THEN a
    ELSE (IF a % 2 = 1 \/ b % 2 = 1 THEN 1 ELSE 0) + 2 * BitOr(a \div 2, b \div 2)

PACK(size, alloc) == BitOr(size, alloc)

GET_SIZE_W(w) == w - (w % 8)
GET_ALLOC_W(w) == w % 2
GET_PREALLOC_W(w) == 2 * ((w \div 2) % 2)

\* unsigned order on size_t residues
ULT(a, b) == IF (a >= 0) = (b >= 0) THEN a < b ELSE a >= 0

MAX(x, y) == IF ULT(x, y) THEN y ELSE x
MIN(x, y) == IF ULT(x, y) THEN x ELSE y

(***************************************************************************)
(* Heap states: the record h gathers the memory and the statics, so that   *)
(* each function of the program is an operator from heap states to heap    *)
(* states.                                                                 *)
(***************************************************************************)
H == [mem |-> mem, heap_ptr |-> heap_ptr, heap_end |-> heap_end,
      free_blks |-> free_blks, fault |-> fault, limit |-> limit]

Idx(p) == (p - HeapLo) \div WSIZE + 1
InHeap(h, p) == p >= HeapLo /\ (p - HeapLo) % WSIZE = 0 /\ Idx(p) <= Len(h.mem)

READ(h, p) == h.mem[IF InHeap(h, p) THEN Idx(p) ELSE 0]
WRITE(h, p, val) ==
    IF InHeap(h, p) THEN [h EXCEPT !.mem[Idx(p)] = val] ELSE [h EXCEPT !.fault = TRUE]

GET_HEADER(bp) == bp - WSIZE
GET_SIZE(h, p) == GET_SIZE_W(READ(h, p))
GET_ALLOC(h, p) == GET_ALLOC_W(READ(h, p))
GET_PREALLOC(h, p) == GET_PREALLOC_W(READ(h, p))
\* mutant: the footer taken one word too far, on the next block's header
GET_FOOTER_off(h, bp) == bp + GET_SIZE(h, GET_HEADER(bp)) - WSIZE
GET_FOOTER(h, bp) == bp + GET_SIZE(h, GET_HEADER(bp)) - DSIZE

SET_PREALLOC(h, p) == WRITE(h, p, BitOr(READ(h, p), 2))
RESET_PREALLOC(h, p) == WRITE(h, p, READ(h, p) - GET_PREALLOC_W(READ(h, p)))
\* mutant: the xor without the test, which flips the bit
XOR_PREALLOC_flip(h, p) ==
    WRITE(h, p, IF GET_PREALLOC(h, p) # 0 THEN READ(h, p) - 2 ELSE READ(h, p) + 2)

\* the segregated variant clears the bit by xor, after testing it
XOR_PREALLOC(h, p) ==
    IF GET_PREALLOC(h, p) # 0 THEN WRITE(h, p, READ(h, p) - 2) ELSE h
CLEAR_PREALLOC(h, p) ==
    IF variant = "seg" THEN XOR_PREALLOC(h, p) ELSE RESET_PREALLOC(h, p)

PRED_FOOTER(bp) == bp - DSIZE
SUCC_HEADER(h, bp) == bp + GET_SIZE(h, GET_HEADER(bp)) - WSIZE
PRED_BLK(h, bp) == bp - GET_SIZE(h, PRED_FOOTER(bp))
SUCC_BLK(h, bp) == bp + GET_SIZE(h, GET_HEADER(bp))

PRED_FREE(h, bp) == IF READ(h, bp) = 0 THEN NULL ELSE READ(h, bp) + h.heap_ptr
SUCC_FREE(h, bp) ==
    IF READ(h, bp + WSIZE) = 0 THEN NULL ELSE READ(h, bp + WSIZE) + h.heap_ptr
SET_PRED_FREE(h, bp, val) == WRITE(h, bp, IF val = 0 THEN 0 ELSE val - h.heap_ptr)
SET_SUCC_FREE(h, bp, val) ==
    WRITE(h, bp + WSIZE, IF val = 0 THEN 0 ELSE val - h.heap_ptr)

(***************************************************************************)
(* The provider                                                            *)
(***************************************************************************)
mem_brk(h) == HeapLo + WSIZE * Len(h.mem)

\* a request the provider grants: it fits in what is left of the region
mem_sbrk_ok(h, incr) == incr >= 0 /\ mem_brk(h) + incr <= HeapLo + h.limit

\* the region grown by incr bytes of uninitialised memory
mem_sbrk(h, incr, fill) ==
    [h EXCEPT !.mem = h.mem \o [i \in 1..(incr \div WSIZE) |-> fill]]

(***************************************************************************)
(* Free lists                                                              *)
(***************************************************************************)
RECURSIVE level_from(_, _)
level_from(size, i) ==
    IF i >= max_level THEN max_level
    ELSE IF ~ULT(threshold[i + 1], size) THEN i
    ELSE level_from(size, i + 1)

_get_level(size) == level_from(size, 0)

\* the list a block of this size is kept in: mm.c has one list
list_of(size) == IF variant = "seg" THEN _get_level(size) ELSE 0

\* the head of list level becomes ptr
set_head(h, level, ptr) == [h EXCEPT !.free_blks[level] = ptr]

\* mutant: an insertion that leaves the old head's link to its predecessor
_insert_free_block_noback(h, ptr) ==
    IF ptr = NULL THEN h
    ELSE
        LET level == list_of(GET_SIZE(h, GET_HEADER(ptr)))
            head == h.free_blks[level]
        IN  IF head = NULL
            THEN SET_SUCC_FREE(SET_PRED_FREE(set_head(h, level, ptr), ptr, 0), ptr, 0)
            ELSE SET_PRED_FREE(
                     set_head(SET_SUCC_FREE(h, ptr, head), level, ptr),
                     ptr, 0)

\* mutant: an insertion in front of a non-empty list that leaves the head as it was
_insert_free_block_nohead(h, ptr) ==
    IF ptr = NULL THEN h
    ELSE
        LET level == list_of(GET_SIZE(h, GET_HEADER(ptr)))
            head == h.free_blks[level]
        IN  IF head = NULL
            THEN SET_SUCC_FREE(SET_PRED_FREE(set_head(h, level, ptr), ptr, 0), ptr, 0)
            ELSE SET_PRED_FREE(SET_PRED_FREE(SET_SUCC_FREE(h, ptr, head), head, ptr), ptr, 0)

_insert_free_block(h, ptr) ==
    IF ptr = NULL THEN h
    ELSE
        LET level == list_of(GET_SIZE(h, GET_HEADER(ptr)))
            head == h.free_blks[level]
        IN  IF head = NULL
            THEN SET_SUCC_FREE(SET_PRED_FREE(set_head(h, level, ptr), ptr, 0), ptr, 0)
            ELSE SET_PRED_FREE(
                     set_head(SET_PRED_FREE(SET_SUCC_FREE(h, ptr, head), head, ptr),
                              level, ptr),
                     ptr, 0)

_delete_free_block(h, ptr) ==
    IF ptr = NULL THEN h
    ELSE
        LET level == list_of(GET_SIZE(h, GET_HEADER(ptr)))
            succ_free == SUCC_FREE(h, ptr)
            pred_free == PRED_FREE(h, ptr)
        IN  IF h.free_blks[level] = ptr
            THEN IF succ_free = NULL
                 THEN set_head(h, level, NULL)
                 ELSE SET_PRED_FREE(set_head(h, level, succ_free), succ_free, 0)
            ELSE IF succ_free = NULL
                 THEN SET_SUCC_FREE(h, pred_free, 0)
                 ELSE SET_PRED_FREE(SET_SUCC_FREE(h, pred_free, succ_free),
                                    succ_free, pred_free)

(***************************************************************************)
(* Coalescing.  The result is the heap state and the surviving block.      *)
(* Each local operator is the rest of the function from one statement on,  *)
(* applied to the heap state the statements before it have produced.       *)
(***************************************************************************)
WRITE_HEADER(h, bp, val) == WRITE(h, GET_HEADER(bp), val)
WRITE_FOOTER(h, bp, val) == WRITE(h, GET_FOOTER(h, bp), val)

\* mutant: the predecessor unlinked after its header took the merged size
_merge_free_blocks_late(h, ptr) ==
    LET pred_alloc == GET_PREALLOC(h, GET_HEADER(ptr))
        succ_alloc == GET_ALLOC(h, SUCC_HEADER(h, ptr))
        insert(h9, p) == [h |-> _insert_free_block(h9, p), ptr |-> p]
        \* merge with succ
        with_succ(h1) ==
            LET newsize == GET_SIZE(h1, GET_HEADER(ptr)) + GET_SIZE(h1, SUCC_HEADER(h1, ptr))
            IN  insert(WRITE_FOOTER(WRITE_HEADER(h1, ptr, PACK(newsize, pred_alloc)),
                                    ptr, PACK(newsize, 0)),
                       ptr)
        \* merge with pred
        with_pred_end(h4) == insert(h4, PRED_BLK(h4, ptr))
        with_pred_reset(h3) ==
            with_pred_end(CLEAR_PREALLOC(_delete_free_block(h3, PRED_BLK(h3, ptr)),
                                         GET_HEADER(SUCC_BLK(h3, ptr))))
        with_pred(h1) ==
            LET newsize == GET_SIZE(h1, GET_HEADER(ptr)) + GET_SIZE(h1, PRED_FOOTER(ptr))
                pred_alloc2 == GET_PREALLOC(h1, GET_HEADER(PRED_BLK(h1, ptr)))
            IN  with_pred_reset(
                    WRITE_FOOTER(WRITE_HEADER(h1, PRED_BLK(h1, ptr), PACK(newsize, pred_alloc2)),
                                 ptr, PACK(newsize, 0)))
        \* merge with both
        with_both_footer(h3, newsize) ==
            with_pred_end(WRITE_FOOTER(h3, SUCC_BLK(h3, ptr), PACK(newsize, 0)))
        with_both(h2) ==
            LET newsize == GET_SIZE(h2, GET_HEADER(ptr)) + GET_SIZE(h2, PRED_FOOTER(ptr))
                           + GET_SIZE(h2, SUCC_HEADER(h2, ptr))
                pred_alloc2 == GET_PREALLOC(h2, GET_HEADER(PRED_BLK(h2, ptr)))
            IN  with_both_footer(
                    WRITE_HEADER(h2, PRED_BLK(h2, ptr), PACK(newsize, pred_alloc2)), newsize)
        delete_succ(h1) == _delete_free_block(h1, SUCC_BLK(h1, ptr))
    IN  IF pred_alloc # 0 /\ succ_alloc # 0
        THEN insert(CLEAR_PREALLOC(h, GET_HEADER(SUCC_BLK(h, ptr))), ptr)
        ELSE IF pred_alloc # 0
        THEN with_succ(_delete_free_block(h, SUCC_BLK(h, ptr)))
        ELSE IF succ_alloc # 0
        THEN with_pred(h)
        ELSE with_both(delete_succ(_delete_free_block(h, PRED_BLK(h, ptr))))

_merge_free_blocks(h, ptr) ==
    LET pred_alloc == GET_PREALLOC(h, GET_HEADER(ptr))
        succ_alloc == GET_ALLOC(h, SUCC_HEADER(h, ptr))
        insert(h9, p) == [h |-> _insert_free_block(h9, p), ptr |-> p]
        \* merge with succ
        with_succ(h1) ==
            LET newsize == GET_SIZE(h1, GET_HEADER(ptr)) + GET_SIZE(h1, SUCC_HEADER(h1, ptr))
            IN  insert(WRITE_FOOTER(WRITE_HEADER(h1, ptr, PACK(newsize, pred_alloc)),
                                    ptr, PACK(newsize, 0)),
                       ptr)
        \* merge with pred
        with_pred_end(h4) == insert(h4, PRED_BLK(h4, ptr))
        with_pred_reset(h3) ==
            with_pred_end(CLEAR_PREALLOC(h3, GET_HEADER(SUCC_BLK(h3, ptr))))
        with_pred(h1) ==
            LET newsize == GET_SIZE(h1, GET_HEADER(ptr)) + GET_SIZE(h1, PRED_FOOTER(ptr))
                pred_alloc2 == GET_PREALLOC(h1, GET_HEADER(PRED_BLK(h1, ptr)))
            IN  with_pred_reset(
                    WRITE_FOOTER(WRITE_HEADER(h1, PRED_BLK(h1, ptr), PACK(newsize, pred_alloc2)),
                                 ptr, PACK(newsize, 0)))
        \* merge with both
        with_both_footer(h3, newsize) ==
            with_pred_end(WRITE_FOOTER(h3, SUCC_BLK(h3, ptr), PACK(newsize, 0)))
        with_both(h2) ==
            LET newsize == GET_SIZE(h2, GET_HEADER(ptr)) + GET_SIZE(h2, PRED_FOOTER(ptr))
                           + GET_SIZE(h2, SUCC_HEADER(h2, ptr))
                pred_alloc2 == GET_PREALLOC(h2, GET_HEADER(PRED_BLK(h2, ptr)))
            IN  with_both_footer(
                    WRITE_HEADER(h2, PRED_BLK(h2, ptr), PACK(newsize, pred_alloc2)), newsize)
        delete_succ(h1) == _delete_free_block(h1, SUCC_BLK(h1, ptr))
    IN  IF pred_alloc # 0 /\ succ_alloc # 0
        THEN insert(CLEAR_PREALLOC(h, GET_HEADER(SUCC_BLK(h, ptr))), ptr)
        ELSE IF pred_alloc # 0
        THEN with_succ(_delete_free_block(h, SUCC_BLK(h, ptr)))
        ELSE IF succ_alloc # 0
        THEN with_pred(_delete_free_block(h, PRED_BLK(h, ptr)))
        ELSE with_both(delete_succ(_delete_free_block(h, PRED_BLK(h, ptr))))

\* mutant: a block taken whole keeps a header without the ALLOC bit
_build_unmarked(h, ptr, size) ==
    IF ptr = NULL THEN h
    ELSE
        LET split_merge(h5, split) == _merge_free_blocks(h5, split).h
            split_rest(h3, rest) ==
                split_merge(
                    WRITE_FOOTER(WRITE_HEADER(h3, SUCC_BLK(h3, ptr), PACK(rest, 2)),
                                 SUCC_BLK(h3, ptr), PACK(rest, 0)),
                    SUCC_BLK(h3, ptr))
            whole_succ(h3) == SET_PREALLOC(h3, GET_HEADER(SUCC_BLK(h3, ptr)))
            deleted(h1) ==
                LET blksize == GET_SIZE(h1, GET_HEADER(ptr))
                    prealloc == GET_PREALLOC(h1, GET_HEADER(ptr))
                IN  IF ULT(ESIZE, blksize - size)
                    THEN split_rest(
                             WRITE_FOOTER(WRITE_HEADER(h1, ptr, PACK(size, BitOr(prealloc, 1))),
                                          ptr, PACK(size, 1)),
                             blksize - size)
                    ELSE whole_succ(
                             WRITE_FOOTER(WRITE_HEADER(h1, ptr, PACK(blksize, prealloc)),
                                          ptr, PACK(blksize, 1)))
        IN  deleted(_delete_free_block(h, ptr))

\* mutant: the block is split also when exactly ESIZE bytes are left over
_build_ge(h, ptr, size) ==
    IF ptr = NULL THEN h
    ELSE
        LET split_merge(h5, split) == _merge_free_blocks(h5, split).h
            split_rest(h3, rest) ==
                split_merge(
                    WRITE_FOOTER(WRITE_HEADER(h3, SUCC_BLK(h3, ptr), PACK(rest, 2)),
                                 SUCC_BLK(h3, ptr), PACK(rest, 0)),
                    SUCC_BLK(h3, ptr))
            whole_succ(h3) == SET_PREALLOC(h3, GET_HEADER(SUCC_BLK(h3, ptr)))
            deleted(h1) ==
                LET blksize == GET_SIZE(h1, GET_HEADER(ptr))
                    prealloc == GET_PREALLOC(h1, GET_HEADER(ptr))
                IN  IF ~ULT(blksize - size, ESIZE)
                    THEN split_rest(
                             WRITE_FOOTER(WRITE_HEADER(h1, ptr, PACK(size, BitOr(prealloc, 1))),
                                          ptr, PACK(size, 1)),
                             blksize - size)
                    ELSE whole_succ(
                             WRITE_FOOTER(WRITE_HEADER(h1, ptr, PACK(blksize, BitOr(prealloc, 1))),
                                          ptr, PACK(blksize, 1)))
        IN  deleted(_delete_free_block(h, ptr))

(***************************************************************************)
(* Building an allocated block on a free one, splitting it when the rest   *)
(* is more than a minimum block.  size is a size_t residue.                *)
(***************************************************************************)
_build(h, ptr, size) ==
    IF ptr = NULL THEN h
    ELSE
        LET split_merge(h5, split) == _merge_free_blocks(h5, split).h
            split_rest(h3, rest) ==
                split_merge(
                    WRITE_FOOTER(WRITE_HEADER(h3, SUCC_BLK(h3, ptr), PACK(rest, 2)),
                                 SUCC_BLK(h3, ptr), PACK(rest, 0)),
                    SUCC_BLK(h3, ptr))
            whole_succ(h3) == SET_PREALLOC(h3, GET_HEADER(SUCC_BLK(h3, ptr)))
            deleted(h1) ==
                LET blksize == GET_SIZE(h1, GET_HEADER(ptr))
                    prealloc == GET_PREALLOC(h1, GET_HEADER(ptr))
                IN  IF ULT(ESIZE, blksize - size)
                    THEN split_rest(
                             WRITE_FOOTER(WRITE_HEADER(h1, ptr, PACK(size, BitOr(prealloc, 1))),
                                          ptr, PACK(size, 1)),
                             blksize - size)
                    ELSE whole_succ(
                             WRITE_FOOTER(WRITE_HEADER(h1, ptr, PACK(blksize, BitOr(prealloc, 1))),
                                          ptr, PACK(blksize, 1)))
        IN  deleted(_delete_free_block(h, ptr))

(***************************************************************************)
(* Extending the heap.  words is the size_t residue of the word count; a   *)
(* NULL ptr in the result tells that the provider refused.                 *)
(***************************************************************************)
\* mutant: the extension always rounded up by one word
extend_bytes_up(words) ==
    (words + 1) * WSIZE

extend_bytes(words) ==
    IF words % 2 = 1 THEN (words + 1) * WSIZE ELSE words * WSIZE

\* mutant: the footer of the new block written before its header
_extend_heap_footer_first(h, words, fill) ==
    LET extend_size == extend_bytes(words)
        ptr == mem_brk(h)
        epilogue(h4) == _merge_free_blocks(WRITE(h4, h4.heap_end, PACK(0, 1)), ptr)
        new_end(h3) == epilogue([h3 EXCEPT !.heap_end = GET_HEADER(SUCC_BLK(h3, ptr))])
        grown(h1) ==
            new_end(WRITE_HEADER(
                        WRITE_FOOTER(h1, ptr, PACK(extend_size, 0)),
                        ptr, PACK(extend_size, GET_PREALLOC(h1, h1.heap_end))))
    IN  IF ~mem_sbrk_ok(h, extend_size)
        THEN [h |-> h, ptr |-> NULL]
        ELSE grown(mem_sbrk(h, extend_size, fill))

\* mutant: the new block's header is written over the epilogue before the
\* provider's answer is tested
_extend_heap_early(h, words, fill) ==
    LET extend_size == extend_bytes(words)
        ptr == mem_brk(h)
        epilogue(h4) == _merge_free_blocks(WRITE(h4, h4.heap_end, PACK(0, 1)), ptr)
        new_end(h3) == epilogue([h3 EXCEPT !.heap_end = GET_HEADER(SUCC_BLK(h3, ptr))])
        grown(h1) ==
            new_end(WRITE_FOOTER(
                        WRITE_HEADER(h1, ptr, PACK(extend_size, GET_PREALLOC(h1, h1.heap_end))),
                        ptr, PACK(extend_size, 0)))
    IN  IF ~mem_sbrk_ok(h, extend_size)
        THEN [h |-> WRITE_HEADER(h, ptr, PACK(extend_size, GET_PREALLOC(h, h.heap_end))),
              ptr |-> NULL]
        ELSE grown(mem_sbrk(h, extend_size, fill))

_extend_heap(h, words, fill) ==
    LET extend_size == extend_bytes(words)
        ptr == mem_brk(h)
        epilogue(h4) == _merge_free_blocks(WRITE(h4, h4.heap_end, PACK(0, 1)), ptr)
        new_end(h3) == epilogue([h3 EXCEPT !.heap_end = GET_HEADER(SUCC_BLK(h3, ptr))])
        grown(h1) ==
            new_end(WRITE_FOOTER(
                        WRITE_HEADER(h1, ptr, PACK(extend_size, GET_PREALLOC(h1, h1.heap_end))),
                        ptr, PACK(extend_size, 0)))
    IN  IF ~mem_sbrk_ok(h, extend_size)
        THEN [h |-> h, ptr |-> NULL]
        ELSE grown(mem_sbrk(h, extend_size, fill))

(***************************************************************************)
(* Placement                                                               *)
(***************************************************************************)
\* mutant: a later block of the same size replaces the best fit
RECURSIVE fit_walk_last(_, _, _, _, _, _, _)
fit_walk_last(h, ptr, size, best_fit, best_fit_size, fit_cnt, nfit_cnt) ==
    IF ptr = NULL THEN best_fit
    ELSE
        LET now_size == GET_SIZE(h, GET_HEADER(ptr))
            counted(best, best_size) ==
                IF fit_cnt + 1 = MAX_FIT THEN best
                ELSE fit_walk_last(h, SUCC_FREE(h, ptr), size, best, best_size,
                                   fit_cnt + 1, nfit_cnt)
        IN  IF ~ULT(now_size, size)
            THEN IF best_fit = NULL \/ now_size <= best_fit_size
                 THEN counted(ptr, now_size)
                 ELSE counted(best_fit, best_fit_size)
            ELSE IF nfit_cnt + 1 > MAX_NFIT /\ fit_cnt # 0 THEN best_fit
                 ELSE fit_walk_last(h, SUCC_FREE(h, ptr), size, best_fit, best_fit_size,
                                    fit_cnt, nfit_cnt + 1)

\* mutant: the walk stops at the MAX_NFIT-th block that does not fit
RECURSIVE fit_walk_ge(_, _, _, _, _, _, _)
fit_walk_ge(h, ptr, size, best_fit, best_fit_size, fit_cnt, nfit_cnt) ==
    IF ptr = NULL THEN best_fit
    ELSE
        LET now_size == GET_SIZE(h, GET_HEADER(ptr))
            counted(best, best_size) ==
                IF fit_cnt + 1 = MAX_FIT THEN best
                ELSE fit_walk_ge(h, SUCC_FREE(h, ptr), size, best, best_size,
                                 fit_cnt + 1, nfit_cnt)
        IN  IF ~ULT(now_size, size)
            THEN IF best_fit = NULL \/ now_size < best_fit_size
                 THEN counted(ptr, now_size)
                 ELSE counted(best_fit, best_fit_size)
            ELSE IF nfit_cnt + 1 >= MAX_NFIT /\ fit_cnt # 0 THEN best_fit
                 ELSE fit_walk_ge(h, SUCC_FREE(h, ptr), size, best_fit, best_fit_size,
                                  fit_cnt, nfit_cnt + 1)

\* mm.c: the loop of _allocate from ptr on, with the loop's locals
RECURSIVE fit_walk(_, _, _, _, _, _, _)
fit_walk(h, ptr, size, best_fit, best_fit_size, fit_cnt, nfit_cnt) ==
    IF ptr = NULL THEN best_fit
    ELSE
        LET now_size == GET_SIZE(h, GET_HEADER(ptr))
            counted(best, best_size) ==
                IF fit_cnt + 1 = MAX_FIT THEN best
                ELSE fit_walk(h, SUCC_FREE(h, ptr), size, best, best_size,
                              fit_cnt + 1, nfit_cnt)
        IN  IF ~ULT(now_size, size)
            THEN IF best_fit = NULL \/ now_size < best_fit_size
                 THEN counted(ptr, now_size)
                 ELSE counted(best_fit, best_fit_size)
            ELSE IF nfit_cnt + 1 > MAX_NFIT /\ fit_cnt # 0 THEN best_fit
                 ELSE fit_walk(h, SUCC_FREE(h, ptr), size, best_fit, best_fit_size,
                               fit_cnt, nfit_cnt + 1)

mm_allocate(h, size) == fit_walk(h, h.free_blks[0], size, NULL, 0, 0, 0)

\* mutant: the first fitting block is kept, whatever follows
RECURSIVE seg_walk_first(_, _, _, _, _, _, _)
seg_walk_first(h, i, ptr, size, best_fit, best_fit_size, fit_cnt) ==
    IF ptr = NULL
    THEN IF best_fit # NULL THEN best_fit
         ELSE IF i + 1 > max_level THEN NULL
         ELSE seg_walk_first(h, i + 1, h.free_blks[i + 1], size, best_fit, best_fit_size,
                             fit_cnt)
    ELSE
        LET now_size == GET_SIZE(h, GET_HEADER(ptr))
            counted(best, best_size) ==
                IF fit_cnt + 1 = SEG_MAX_FIT THEN best
                ELSE seg_walk_first(h, i, SUCC_FREE(h, ptr), size, best, best_size,
                                    fit_cnt + 1)
        IN  IF ~ULT(now_size, size)
            THEN IF best_fit = NULL
                 THEN counted(ptr, now_size)
                 ELSE counted(best_fit, best_fit_size)
            ELSE seg_walk_first(h, i, SUCC_FREE(h, ptr), size, best_fit, best_fit_size,
                                fit_cnt)

\* segregated variant: the two loops of _allocate, from block ptr of list i on;
\* ptr = NULL is the end of list i
RECURSIVE seg_walk(_, _, _, _, _, _, _)
seg_walk(h, i, ptr, size, best_fit, best_fit_size, fit_cnt) ==
    IF ptr = NULL
    THEN IF best_fit # NULL THEN best_fit
         ELSE IF i + 1 > max_level THEN NULL
         ELSE seg_walk(h, i + 1, h.free_blks[i + 1], size, best_fit, best_fit_size, fit_cnt)
    ELSE
        LET now_size == GET_SIZE(h, GET_HEADER(ptr))
            counted(best, best_size) ==
                IF fit_cnt + 1 = SEG_MAX_FIT THEN best
                ELSE seg_walk(h, i, SUCC_FREE(h, ptr), size, best, best_size, fit_cnt + 1)
        IN  IF ~ULT(now_size, size)
            THEN IF best_fit = NULL \/ now_size < best_fit_size
                 THEN counted(ptr, now_size)
                 ELSE counted(best_fit, best_fit_size)
            ELSE seg_walk(h, i, SUCC_FREE(h, ptr), size, best_fit, best_fit_size, fit_cnt)

seg_allocate(h, size) ==
    seg_walk(h, _get_level(size), h.free_blks[_get_level(size)], size, NULL, 0, 0)

_allocate(h, size) == IF variant = "seg" THEN seg_allocate(h, size) ELSE mm_allocate(h, size)

(***************************************************************************)
(* mm_init: the result is the heap state and the value returned            *)
(***************************************************************************)
\* mutant: an mm_init that asks for five words and leaves out the padding word
mm_init_nopad(h, fill) ==
    LET base == mem_brk(h)
        statics(h6) == [h6 EXCEPT !.heap_end = base + (4 * WSIZE),
                                  !.heap_ptr = base + ESIZE - WSIZE,
                                  !.free_blks = [i \in 0..max_level |-> NULL]]
        words(h0) ==
            WRITE(WRITE(WRITE(WRITE(WRITE(h0,
                base, PACK(ESIZE, 1)),
                base + (1 * WSIZE), 0),
                base + (2 * WSIZE), 0),
                base + (3 * WSIZE), PACK(ESIZE, 1)),
                base + (4 * WSIZE), PACK(0, 3))
    IN  IF ~mem_sbrk_ok(h, 5 * WSIZE)
        THEN [h |-> [h EXCEPT !.heap_ptr = SBRK_FAIL], ret |-> 0 - 1]
        ELSE [h |-> statics(words([mem_sbrk(h, 5 * WSIZE, fill) EXCEPT !.heap_ptr = base])),
              ret |-> 0]

mm_init(h, fill) ==
    LET base == mem_brk(h)
        statics(h6) == [h6 EXCEPT !.heap_end = base + (5 * WSIZE),
                                  !.heap_ptr = base + ESIZE,
                                  !.free_blks = [i \in 0..max_level |-> NULL]]
        words(h0) ==
            WRITE(WRITE(WRITE(WRITE(WRITE(WRITE(h0,
                base, 0),
                base + (1 * WSIZE), PACK(ESIZE, 1)),
                base + (2 * WSIZE), 0),
                base + (3 * WSIZE), 0),
                base + (4 * WSIZE), PACK(ESIZE, 1)),
                base + (5 * WSIZE), PACK(0, 3))
    IN  IF ~mem_sbrk_ok(h, 6 * WSIZE)
        THEN [h |-> [h EXCEPT !.heap_ptr = SBRK_FAIL], ret |-> 0 - 1]
        ELSE [h |-> statics(words([mem_sbrk(h, 6 * WSIZE, fill) EXCEPT !.heap_ptr = base])),
              ret |-> 0]

(***************************************************************************)
(* malloc and free                                                         *)
(***************************************************************************)
\* mutant: the adjusted size without the minimum block size
adjust_size_nomax(size) == DSIZE * ((size + WSIZE + DSIZE - 1) \div DSIZE)

\* mutant: the adjusted size rounded down to a multiple of 8
adjust_size_down(size) == MAX(ESIZE, DSIZE * ((size + WSIZE) \div DSIZE))

\* mutant: the basic variant's adjusted size without the double word of the
\* header and footer
adjust_size_basic_bare(size) == DSIZE * ((size + DSIZE - 1) \div DSIZE)

\* the adjusted block size of the basic variant, whose blocks all carry a footer
adjust_size_basic(size) == DSIZE * ((size + DSIZE - 1) \div DSIZE + 1)

\* the adjusted block size, in size_t arithmetic
adjust_size(size) == MAX(ESIZE, DSIZE * ((size + WSIZE + DSIZE - 1) \div DSIZE))

\* the result: heap state, pointer returned, provider calls made, refusal
malloc(h, n, fill) ==
    LET size == adjust_size(n)
        hit(ptr) == [h |-> _build(h, ptr, size), ret |-> ptr, sbrk |-> 0, refused |-> FALSE]
        extended(e) ==
            IF e.ptr = NULL
            THEN [h |-> e.h, ret |-> NULL, sbrk |-> 1, refused |-> TRUE]
            ELSE [h |-> _build(e.h, e.ptr, size), ret |-> e.ptr, sbrk |-> 1,
                  refused |-> FALSE]
        placed(ptr) ==
            IF ptr # NULL THEN hit(ptr)
            ELSE extended(_extend_heap(h, size \div WSIZE, fill))
    IN  IF n = 0 THEN [h |-> h, ret |-> NULL, sbrk |-> 0, refused |-> FALSE]
        ELSE placed(_allocate(h, size))

\* mutant: a free that inserts the block without coalescing
free_no_merge(h, ptr) ==
    IF ptr = NULL THEN h
    ELSE
        LET size == GET_SIZE(h, GET_HEADER(ptr))
            prealloc == GET_PREALLOC(h, GET_HEADER(ptr))
            listed(h2) == _insert_free_block(CLEAR_PREALLOC(h2, GET_HEADER(SUCC_BLK(h2, ptr))), ptr)
        IN  listed(WRITE_FOOTER(WRITE_HEADER(h, ptr, PACK(size, prealloc)), ptr, PACK(size, 0)))

\* mutant: a free that leaves the footer as the block's owner left it
free_no_footer(h, ptr) ==
    IF ptr = NULL THEN h
    ELSE
        LET size == GET_SIZE(h, GET_HEADER(ptr))
            prealloc == GET_PREALLOC(h, GET_HEADER(ptr))
        IN  _merge_free_blocks(WRITE_HEADER(h, ptr, PACK(size, prealloc)), ptr).h

free(h, ptr) ==
    IF ptr = NULL THEN h
    ELSE
        LET size == GET_SIZE(h, GET_HEADER(ptr))
            prealloc == GET_PREALLOC(h, GET_HEADER(ptr))
        IN  _merge_free_blocks(
                WRITE_FOOTER(WRITE_HEADER(h, ptr, PACK(size, prealloc)), ptr, PACK(size, 0)),
                ptr).h

(***************************************************************************)
(* realloc                                                                 *)
(***************************************************************************)
\* k words copied from src to dst, lowest address first
RECURSIVE copy_words(_, _, _, _)
copy_words(h, dst, src, k) ==
    IF k = 0 THEN h
    ELSE copy_words(WRITE(h, dst, READ(h, src)), dst + WSIZE, src + WSIZE, k - 1)

\* n bytes (a multiple of the word size) copied from src to dst
memcpy(h, dst, src, n) ==
    IF n < 0 \/ n % WSIZE # 0 THEN [h EXCEPT !.fault = TRUE]
    ELSE copy_words(h, dst, src, n \div WSIZE)

\* the bytes realloc copies between two blocks of these sizes
copy_bytes(oldsize, newsize) == MIN(oldsize, newsize) - WSIZE

\* mutant: a realloc without the test of size == 0
realloc_nozero(h, oldptr, size, fill) ==
    LET none == [h |-> h, ret |-> NULL, freed |-> FALSE, copied |-> 0,
                 refused |-> FALSE, nullacc |-> FALSE, trap |-> FALSE]
        got(m) == [none EXCEPT !.h = m.h, !.ret = m.ret, !.refused = m.refused]
        copied(m, n) ==
            [got(m) EXCEPT !.h = free(memcpy(m.h, m.ret, oldptr, n), oldptr),
                           !.freed = TRUE, !.copied = n]
        after_malloc(m) ==
            IF oldptr = NULL THEN {got(m)}
            ELSE IF m.ret # NULL
            THEN {copied(m, copy_bytes(GET_SIZE(m.h, GET_HEADER(oldptr)),
                                       GET_SIZE(m.h, GET_HEADER(m.ret))))}
            ELSE {[got(m) EXCEPT !.nullacc = TRUE, !.trap = TRUE],
                  [got(m) EXCEPT !.nullacc = TRUE, !.h = free(m.h, oldptr), !.freed = TRUE]}
    IN  after_malloc(malloc(h, size, fill))

\* The outcomes of realloc(oldptr, size): heap state, pointer returned, whether
\* oldptr was released, bytes copied, whether the provider refused, whether a
\* null pointer was accessed and whether that access stopped the process.
\* When the inner malloc returns NULL, realloc reads the header of the null
\* pointer and memcpy writes through it: either an access traps, or none does
\* and the call goes on to free(oldptr) and returns NULL.
realloc(h, oldptr, size, fill) ==
    LET none == [h |-> h, ret |-> NULL, freed |-> FALSE, copied |-> 0,
                 refused |-> FALSE, nullacc |-> FALSE, trap |-> FALSE]
        got(m) == [none EXCEPT !.h = m.h, !.ret = m.ret, !.refused = m.refused]
        copied(m, n) ==
            [got(m) EXCEPT !.h = free(memcpy(m.h, m.ret, oldptr, n), oldptr),
                           !.freed = TRUE, !.copied = n]
        after_malloc(m) ==
            IF oldptr = NULL THEN {got(m)}
            ELSE IF m.ret # NULL
            THEN {copied(m, copy_bytes(GET_SIZE(m.h, GET_HEADER(oldptr)),
                                       GET_SIZE(m.h, GET_HEADER(m.ret))))}
            ELSE {[got(m) EXCEPT !.nullacc = TRUE, !.trap = TRUE],
                  [got(m) EXCEPT !.nullacc = TRUE, !.h = free(m.h, oldptr), !.freed = TRUE]}
    IN  IF size = 0
        THEN {[none EXCEPT !.h = free(h, oldptr), !.freed = (oldptr # NULL)]}
        ELSE after_malloc(malloc(h, size, fill))

(***************************************************************************)
(* calloc                                                                  *)
(***************************************************************************)
\* k words from dst on set to zero
RECURSIVE zero_words(_, _, _)
zero_words(h, dst, k) ==
    IF k = 0 THEN h ELSE zero_words(WRITE(h, dst, 0), dst + WSIZE, k - 1)

\* the word w with its r bytes of lowest address set to zero (the bytes of a
\* word are stored lowest-order first)
zero_low_bytes(w, r) == w - (w % (256 ^ r))

\* memset(dst, 0, n): whole words, then the bytes left over
memset(h, dst, n) ==
    LET last == dst + WSIZE * (n \div WSIZE)
        tail(h1) == IF n % WSIZE = 0 THEN h1
                    ELSE WRITE(h1, last, zero_low_bytes(READ(h1, last), n % WSIZE))
    IN  tail(zero_words(h, dst, n \div WSIZE))

\* The outcomes of calloc(nmemb, size): heap state, pointer returned, whether
\* the provider refused, whether bytes were written through a null pointer and
\* whether an access stopped the process.  calloc passes malloc's result to
\* memset as it is: with a null result and bytes to write, either the write
\* traps or it does not and calloc returns NULL; a block smaller than the
\* bytes to write (the product or the size adjustment wrapped) is overrun.
calloc(h, nmemb, size, fill) ==
    LET bytes == nmemb * size
        none == [h |-> h, ret |-> NULL, refused |-> FALSE, nullacc |-> FALSE, trap |-> FALSE]
        got(m) == [none EXCEPT !.h = m.h, !.ret = m.ret, !.refused = m.refused]
        after_malloc(m) ==
            IF m.ret = NULL
            THEN IF bytes = 0 THEN {got(m)}
                 ELSE {[got(m) EXCEPT !.nullacc = TRUE, !.trap = TRUE],
                       [got(m) EXCEPT !.nullacc = TRUE]}
            ELSE IF ULT(GET_SIZE(m.h, GET_HEADER(m.ret)) - WSIZE, bytes)
            THEN {[got(m) EXCEPT !.trap = TRUE]}
            ELSE {[got(m) EXCEPT !.h = memset(m.h, m.ret, bytes)]}
    IN  after_malloc(malloc(h, bytes, fill))

(***************************************************************************)
(* The state machine: the caller's calls                                   *)
(***************************************************************************)
Frees == [i \in 0..max_level |-> NULL]

Init ==
    /\ variant \in {"mm", "seg"}
    /\ fresh \in FreshWords
    /\ inited = FALSE
    /\ mem = <<>>
    /\ heap_ptr = NULL
    /\ heap_end = NULL
    /\ free_blks = Frees
    /\ fault = FALSE
    /\ live = {}
    /\ crashed = FALSE
    /\ limit = MaxHeap
    /\ todo = <<>>

\* the heap variables take the values of heap state h
Becomes(h) ==
    /\ mem' = h.mem
    /\ heap_ptr' = h.heap_ptr
    /\ heap_end' = h.heap_end
    /\ free_blks' = h.free_blks
    /\ fault' = h.fault
    /\ limit' = h.limit

\* the caller's pointers after a call that released p (or nothing) and returned ret
Holds(released, p, ret) ==
    live' = (IF released THEN live \ {p} ELSE live) \cup (IF ret = NULL THEN {} ELSE {ret})

\* the caller starts with mm_init, once
MmInitReturns(r) == Becomes(r.h) /\ inited' = (r.ret = 0)

MmInit ==
    /\ ~inited /\ ~crashed
    /\ MmInitReturns(mm_init(H, fresh))
    /\ UNCHANGED <<variant, live, fresh, crashed, todo>>

MallocReturns(r) == Becomes(r.h) /\ Holds(FALSE, NULL, r.ret)

Malloc ==
    /\ inited /\ ~crashed
    /\ \E n \in Requests \cup {0} : MallocReturns(malloc(H, n, fresh))
    /\ UNCHANGED <<variant, inited, fresh, crashed, todo>>

\* the caller releases a pointer it holds, or NULL
Free ==
    /\ inited /\ ~crashed
    /\ \E p \in live \cup {NULL} : Becomes(free(H, p)) /\ Holds(TRUE, p, NULL)
    /\ UNCHANGED <<variant, inited, fresh, crashed, todo>>

ReallocReturns(p, o) == Becomes(o.h) /\ Holds(o.freed, p, o.ret) /\ crashed' = o.trap

Realloc ==
    /\ inited /\ ~crashed
    /\ \E p \in live \cup {NULL}, n \in Requests \cup {0} :
         \E o \in realloc(H, p, n, fresh) : ReallocReturns(p, o)
    /\ UNCHANGED <<variant, inited, fresh, todo>>

CallocReturns(o) == Becomes(o.h) /\ Holds(FALSE, NULL, o.ret) /\ crashed' = o.trap

Calloc ==
    /\ inited /\ ~crashed
    /\ \E a \in CallocArgs :
         \E o \in calloc(H, a[1], a[2], fresh) : CallocReturns(o)
    /\ UNCHANGED <<variant, inited, fresh, todo>>

\* the payload capacity of the block at bp, in bytes
capacity(h, bp) == GET_SIZE(h, GET_HEADER(bp)) - WSIZE

\* the caller's data: payload word i of the block holds DataWord + i
RECURSIVE fill_words(_, _, _, _)
fill_words(h, bp, i, k) ==
    IF i >= k THEN h
    ELSE fill_words(WRITE(h, bp + i * WSIZE, DataWord + i), bp, i + 1, k)

store(h, bp) == fill_words(h, bp, 0, capacity(h, bp) \div WSIZE)

Stored(h) == h.mem # mem /\ Becomes(h)

\* the caller fills the payload of one of its blocks
Store ==
    /\ inited /\ ~crashed
    /\ \E p \in live : Stored(store(H, p))
    /\ UNCHANGED <<variant, inited, live, fresh, crashed, todo>>

Next == MmInit \/ Malloc \/ Free \/ Realloc \/ Calloc \/ Store

Spec == Init /\ [][Next]_vars

(***************************************************************************)
(* The runs of a caller that asks for 32 bytes at a time, over a provider  *)
(* of ScenarioHeap bytes                                                   *)
(***************************************************************************)
ScenarioHeap == 184
ScenarioRequests == {32}

InitScenario ==
    /\ variant \in {"mm", "seg"}
    /\ fresh \in FreshWords
    /\ inited = FALSE
    /\ mem = <<>>
    /\ heap_ptr = NULL
    /\ heap_end = NULL
    /\ free_blks = Frees
    /\ fault = FALSE
    /\ live = {}
    /\ crashed = FALSE
    /\ limit = ScenarioHeap
    /\ todo = <<>>

MallocScenario ==
    /\ inited /\ ~crashed
    /\ \E n \in ScenarioRequests : MallocReturns(malloc(H, n, fresh))
    /\ UNCHANGED <<variant, inited, fresh, crashed, todo>>

NextScenario == MmInit \/ MallocScenario \/ Free

SpecScenario == InitScenario /\ [][NextScenario]_vars

(***************************************************************************)
(* The runs of a caller that follows a script: it carves the heap into     *)
(* blocks of given sizes, each followed by a block of 16 bytes it keeps,   *)
(* releases the blocks so that the free list holds them in the given       *)
(* order, and then allocates MaxPlace times from a provider that has       *)
(* nothing left to give.                                                   *)
(***************************************************************************)
MaxPlace == 2
PlaceRequests == {20, 36, 46, 100}

Repeat(x, n) == [i \in 1..n |-> x]

\* free lists, in list order, by block size
ExampleList == <<48, 64, 32, 40, 56, 72, 96, 40>>
EqualList == <<48, 40, 40>>
SixFitsList == <<48, 64, 56, 72, 96, 80, 40>>
NfitBeforeList == Repeat(16, MAX_NFIT) \o <<48, 16, 40>>
NfitAfterList == <<48>> \o Repeat(16, MAX_NFIT) \o <<40>>
NfitMoreList == <<48>> \o Repeat(16, MAX_NFIT + 1) \o <<40>>
SegManyList == Repeat(32, SEG_MAX_FIT) \o <<24>>
SegClassList == <<128, 104, 64, 136>>

PlaceLists == {ExampleList, EqualList, SixFitsList, NfitBeforeList, NfitAfterList,
               NfitMoreList, SegManyList, SegClassList}

\* the bytes of the first i blocks of the script, each with its 16-byte follower
RECURSIVE carved_bytes(_, _)
carved_bytes(sizes, i) ==
    IF i = 0 THEN 0 ELSE sizes[i] + ESIZE + carved_bytes(sizes, i - 1)

\* the pointer malloc returns for block i of the script: the first block
\* follows the padding word, the prologue and its own header
carved_ptr(sizes, i) == HeapLo + 6 * WSIZE + carved_bytes(sizes, i - 1)

\* the script: malloc of each block and of its follower, free of the blocks
\* from the last to the first, then MaxPlace calls of malloc with a request
\* of the caller's choice
Script(sizes) ==
    [j \in 1..(2 * Len(sizes)) |->
        IF j % 2 = 1 THEN <<"malloc", sizes[(j + 1) \div 2] - WSIZE>>
                     ELSE <<"malloc", ESIZE - WSIZE>>]
    \o [j \in 1..Len(sizes) |-> <<"free", carved_ptr(sizes, Len(sizes) + 1 - j)>>]
    \o Repeat(<<"place", 0>>, MaxPlace)

InitPlace ==
    /\ variant \in {"mm", "seg"}
    /\ fresh = 0
    /\ inited = FALSE
    /\ mem = <<>>
    /\ heap_ptr = NULL
    /\ heap_end = NULL
    /\ free_blks = Frees
    /\ fault = FALSE
    /\ live = {}
    /\ crashed = FALSE
    /\ \E sizes \in PlaceLists :
           /\ limit = 6 * WSIZE + carved_bytes(sizes, Len(sizes))
           /\ todo = Script(sizes)

ScriptMalloc ==
    /\ inited /\ todo # <<>> /\ Head(todo)[1] = "malloc"
    /\ MallocReturns(malloc(H, Head(todo)[2], fresh))
    /\ todo' = Tail(todo)
    /\ UNCHANGED <<variant, inited, fresh, crashed>>

ScriptFree ==
    /\ inited /\ todo # <<>> /\ Head(todo)[1] = "free"
    /\ Becomes(free(H, Head(todo)[2])) /\ Holds(TRUE, Head(todo)[2], NULL)
    /\ todo' = Tail(todo)
    /\ UNCHANGED <<variant, inited, fresh, crashed>>

MallocPlace ==
    /\ inited /\ todo # <<>> /\ Head(todo)[1] = "place"
    /\ \E n \in PlaceRequests : MallocReturns(malloc(H, n, fresh))
    /\ todo' = Tail(todo)
    /\ UNCHANGED <<variant, inited, fresh, crashed>>

NextPlace == MmInit \/ ScriptMalloc \/ ScriptFree \/ MallocPlace

SpecPlace == InitPlace /\ [][NextPlace]_vars

(***************************************************************************)
(* The heap as a sequence of blocks, and the free lists as chains          *)
(***************************************************************************)
\* the prologue's block pointer: mm_init leaves heap_ptr one word pair past it
prologue(h) == h.heap_ptr - DSIZE

\* the blocks met from bp on by adding each block's size, up to a header of
\* size 0 or the end of the region
RECURSIVE blocks_from(_, _, _)
blocks_from(h, bp, fuel) ==
    IF fuel = 0 \/ ~InHeap(h, GET_HEADER(bp)) THEN <<>>
    ELSE IF GET_SIZE(h, GET_HEADER(bp)) = 0 THEN <<>>
    ELSE <<bp>> \o blocks_from(h, SUCC_BLK(h, bp), fuel - 1)

Blocks(h) == blocks_from(h, prologue(h), Len(h.mem))

\* the header at which that walk stops
RECURSIVE walk_end(_, _, _)
walk_end(h, bp, fuel) ==
    IF fuel = 0 \/ ~InHeap(h, GET_HEADER(bp)) THEN SBRK_FAIL
    ELSE IF GET_SIZE(h, GET_HEADER(bp)) = 0 THEN GET_HEADER(bp)
    ELSE walk_end(h, SUCC_BLK(h, bp), fuel - 1)

WalkEnd(h) == walk_end(h, prologue(h), Len(h.mem))

RECURSIVE sum_sizes(_, _, _)
sum_sizes(h, bs, i) ==
    IF i > Len(bs) THEN 0 ELSE GET_SIZE(h, GET_HEADER(bs[i])) + sum_sizes(h, bs, i + 1)

SeqSet(q) == {q[i] : i \in DOMAIN q}

IsFree(h, bp) == GET_ALLOC(h, GET_HEADER(bp)) = 0
FreeBlocks(h) == {bp \in SeqSet(Blocks(h)) : IsFree(h, bp)}

\* the chain of a free list from ptr on; it is cut after fuel blocks, and at a
\* pointer outside the region
RECURSIVE chain(_, _, _)
chain(h, ptr, fuel) ==
    IF ptr = NULL \/ fuel = 0 THEN <<>>
    ELSE IF ~InHeap(h, ptr) \/ ~InHeap(h, ptr + WSIZE) THEN <<ptr>>
    ELSE <<ptr>> \o chain(h, SUCC_FREE(h, ptr), fuel - 1)

RECURSIVE chains_from(_, _)
chains_from(h, level) ==
    IF level > max_level THEN <<>>
    ELSE chain(h, h.free_blks[level], Len(h.mem) + 1) \o chains_from(h, level + 1)

\* every block met by traversing the free-list heads, in order
Listed(h) == chains_from(h, 0)

(***************************************************************************)
(* The heap invariants, as predicates of a heap state                      *)
(***************************************************************************)
FreeListOK(h) ==
    /\ SeqSet(Listed(h)) = FreeBlocks(h)
    /\ Len(Listed(h)) = Cardinality(FreeBlocks(h))

NoAdjacentFree(h) ==
    \A i \in 1..(Len(Blocks(h)) - 1) :
        ~(IsFree(h, Blocks(h)[i]) /\ IsFree(h, Blocks(h)[i + 1]))

\* PREV_ALLOC of the header at hdr tells whether block x is allocated
PrevAllocIs(h, hdr, x) ==
    (GET_PREALLOC(h, hdr) # 0) = (GET_ALLOC(h, GET_HEADER(x)) # 0)

PrevAllocOK(h) ==
    /\ \A i \in 1..(Len(Blocks(h)) - 1) :
           PrevAllocIs(h, GET_HEADER(Blocks(h)[i + 1]), Blocks(h)[i])
    /\ WalkEnd(h) # SBRK_FAIL
    /\ PrevAllocIs(h, WalkEnd(h), Blocks(h)[Len(Blocks(h))])

\* the walk from the prologue ends at the epilogue word, at the high end
EpilogueOK(h) ==
    /\ Len(Blocks(h)) >= 1
    /\ Blocks(h)[1] = prologue(h)
    /\ WalkEnd(h) = mem_brk(h) - WSIZE
    /\ WalkEnd(h) = h.heap_end
    /\ GET_SIZE(h, WalkEnd(h)) = 0
    /\ GET_ALLOC(h, WalkEnd(h)) = 1

SumOfSizes(h) == sum_sizes(h, Blocks(h), 1)

\* the blocks, the pad word before the prologue and the epilogue word fill the region
WalkOK(h) == EpilogueOK(h) /\ SumOfSizes(h) + 2 * WSIZE = mem_brk(h) - HeapLo

\* the footer of a free block is its header without the PREV_ALLOC bit
FooterOK(h) ==
    \A bp \in FreeBlocks(h) :
        READ(h, GET_FOOTER(h, bp)) = PACK(GET_SIZE(h, GET_HEADER(bp)), 0)

\* bits [31:3] of a header hold a size of at least 16; bit 2 is zero
SizesOK(h) ==
    \A bp \in SeqSet(Blocks(h)) :
        /\ GET_SIZE(h, GET_HEADER(bp)) % DSIZE = 0
        /\ (READ(h, GET_HEADER(bp)) \div 4) % 2 = 0
        /\ GET_SIZE(h, GET_HEADER(bp)) >= ESIZE

HeapOK(h) ==
    /\ ~h.fault
    /\ WalkOK(h)
    /\ SizesOK(h)
    /\ PrevAllocOK(h)
    /\ NoAdjacentFree(h)
    /\ FreeListOK(h)
    /\ FooterOK(h)

(***************************************************************************)
(* The claims                                                              *)
(***************************************************************************)
Ready == inited /\ ~crashed

\* C1: after any sequence of calls, the blocks whose header has ALLOC = 0 are
\* exactly the blocks met by traversing the free-list heads, and each of them
\* is met exactly once.
C1_FreeListsHoldFreeBlocks == inited => FreeListOK(H)

\* two free blocks are listed while the caller holds a block
C1_Witness == inited /\ Cardinality(FreeBlocks(H)) >= 2 /\ live # {} /\ FreeListOK(H)

\* C2: after any sequence of calls, no two blocks adjacent in heap order are
\* both free.
C2_NoAdjacentFree == inited => NoAdjacentFree(H)

BothNeighboursFree(h, p) ==
    /\ GET_PREALLOC(h, GET_HEADER(p)) = 0
    /\ GET_ALLOC(h, SUCC_HEADER(h, p)) = 0

\* a block between two free blocks is released, and one free block is left
C2_Witness ==
    /\ Ready
    /\ \E p \in live : /\ BothNeighboursFree(H, p)
                       /\ Cardinality(FreeBlocks(free(H, p))) = 1
                       /\ NoAdjacentFree(free(H, p))

\* C3: in mm.c and in the segregated variant, after any sequence of calls, for
\* every two blocks x, y adjacent in heap order (the prologue counting as an x,
\* the epilogue word as a y) the PREV_ALLOC bit of y's header equals the ALLOC
\* bit of x's header.
C3_PrevAllocMirrorsAlloc == inited => PrevAllocOK(H)

\* in the segregated variant, a free block lies before an allocated one and
\* the last block before the epilogue is free
C3_Witness ==
    /\ inited /\ variant = "seg"
    /\ \E i \in 1..(Len(Blocks(H)) - 1) :
           IsFree(H, Blocks(H)[i]) /\ ~IsFree(H, Blocks(H)[i + 1])
    /\ IsFree(H, Blocks(H)[Len(Blocks(H))])
    /\ GET_PREALLOC(H, heap_end) = 0

\* C4 as stated: the walk from the prologue by block sizes arrives exactly at
\* the epilogue word (size 0, ALLOC 1, at the high end of the heap), and the
\* sizes of the blocks walked, prologue included, add up to heap_hi - heap_lo.
C4_Original == inited => (EpilogueOK(H) /\ SumOfSizes(H) = mem_brk(H) - HeapLo)

\* C4 as amended: the walk arrives exactly at the epilogue word, and the sizes
\* of the blocks walked add up to heap_hi - heap_lo less the two words that
\* belong to no block, the pad word before the prologue and the epilogue word.
C4_WalkReachesEpilogue == inited => WalkOK(H)

\* the heap has been extended and holds the prologue and three more blocks
C4_Witness == inited /\ Len(Blocks(H)) >= 4 /\ WalkOK(H)

\* C5: for every request n, in 64-bit size arithmetic, a non-null pointer
\* returned by allocate(n) belongs to a block whose payload capacity (block
\* size less one header word) is at least n bytes.
AllocFits(n, r) == r.ret # NULL => ~ULT(capacity(r.h, r.ret), n)

C5_CapacityCoversRequest ==
    Ready => \A n \in Requests : AllocFits(n, malloc(H, n, fresh))

\* C6: when the provider refuses, allocate(n) returns null and leaves the heap
\* words, the free-list heads, heap_end and the heap extent as they were; every
\* pointer returned earlier still designates an allocated block and can be
\* released afterwards with the heap invariants holding.
RefusalFrame(r) ==
    r.refused =>
        /\ r.ret = NULL
        /\ r.h = H
        /\ \A p \in live : /\ GET_ALLOC(r.h, GET_HEADER(p)) = 1
                           /\ HeapOK(free(r.h, p))

C6_RefusalLeavesHeap ==
    Ready => \A n \in Requests : RefusalFrame(malloc(H, n, fresh))

\* the provider refuses a request while the caller holds blocks
C6_Witness ==
    /\ Ready /\ Cardinality(live) >= 2
    /\ \E n \in Requests : malloc(H, n, fresh).refused /\ malloc(H, n, fresh).ret = NULL

\* C7: when p is non-null, n > 0 and the allocation inside reallocate(p, n)
\* fails because the provider refuses, reallocate returns null without reading
\* or writing through a null pointer, and p's block stays allocated with its
\* payload unchanged.
SamePayload(h, p) ==
    \A i \in 0..(capacity(H, p) \div WSIZE - 1) :
        READ(h, p + i * WSIZE) = READ(H, p + i * WSIZE)

RefusedRealloc(p, o) ==
    o.refused =>
        /\ o.ret = NULL
        /\ ~o.nullacc
        /\ ~o.freed
        /\ GET_ALLOC(o.h, GET_HEADER(p)) = 1
        /\ SamePayload(o.h, p)

C7_ReallocRefusalIsClean ==
    Ready => \A p \in live : \A n \in Requests :
                 \A o \in realloc(H, p, n, fresh) : RefusedRealloc(p, o)

\* C8: when p is non-null and n' > 0, the block q that reallocate(p, n')
\* returns holds in its first min(n, n') payload bytes what p's payload held
\* before the call (n being the payload capacity of p's block), and the bytes
\* copied exceed the payload capacity of neither block.
Preserved(p, n, o) ==
    /\ o.copied <= capacity(H, p)
    /\ o.copied <= capacity(o.h, o.ret)
    /\ \A i \in 0..((MIN(capacity(H, p), n) + WSIZE - 1) \div WSIZE - 1) :
           /\ i * WSIZE < capacity(o.h, o.ret)
           /\ READ(o.h, o.ret + i * WSIZE) = READ(H, p + i * WSIZE)

C8_ReallocKeepsPayload ==
    Ready => \A p \in live : \A n \in Requests :
                 \A o \in realloc(H, p, n, fresh) : o.ret # NULL => Preserved(p, n, o)

\* C9 as stated: after any sequence of calls, the footer word of every free
\* block equals, as a whole 32-bit word, the block's header word.
C9_Original ==
    inited => \A bp \in FreeBlocks(H) :
                  READ(H, GET_FOOTER(H, bp)) = READ(H, GET_HEADER(bp))

\* C9 as amended: after any sequence of calls, the footer word of every free
\* block holds the block's size with the ALLOC and PREV_ALLOC bits clear: it is
\* the header word without its PREV_ALLOC bit.
C9_FooterIsSize == inited => FooterOK(H)

\* a free block whose header carries the PREV_ALLOC bit lies beside a block
\* the caller holds
C9_Witness ==
    /\ inited /\ live # {}
    /\ \E bp \in FreeBlocks(H) : /\ GET_PREALLOC(H, GET_HEADER(bp)) # 0
                                 /\ GET_SIZE(H, GET_HEADER(bp)) >= 2 * ESIZE
    /\ FooterOK(H)

\* C10: after any sequence of calls, the size field of the header of the
\* prologue and of every allocated or free block is a multiple of 8 and at
\* least 16.
C10_SizesAlignedAndMinimal == inited => (SizesOK(H) /\ WalkEnd(H) = heap_end)

\* a split has left a block of the minimum size 16 and a free rest of 24
C10_Witness ==
    /\ inited
    /\ \E p \in live : GET_SIZE(H, GET_HEADER(p)) = ESIZE
    /\ \E bp \in FreeBlocks(H) : GET_SIZE(H, GET_HEADER(bp)) = ESIZE + DSIZE
    /\ SizesOK(H)

\* C11: the provider's low address being a multiple of 8, every non-null
\* pointer that malloc, realloc or calloc has returned, after any sequence of
\* calls, is a multiple of 8.
C11_PointersAligned ==
    (inited /\ HeapLo % DSIZE = 0) => \A p \in live : p # NULL /\ p % DSIZE = 0

\* the caller holds three pointers
C11_Witness == Ready /\ Cardinality(live) = 3 /\ \A p \in live : p % DSIZE = 0

\* C12: when the malloc inside calloc(m, n) returns null (the provider refuses,
\* or m * n = 0), calloc returns null and writes no byte through the null
\* pointer.
CallocChecked(a, o) ==
    malloc(H, a[1] * a[2], fresh).ret = NULL =>
        o.ret = NULL /\ ~o.nullacc /\ ~o.trap

C12_CallocChecksNull ==
    Ready => \A a \in CallocArgs :
                 \A o \in calloc(H, a[1], a[2], fresh) : CallocChecked(a, o)

\* C13: for any p, null included, realloc(p, 0) returns null and ends in the
\* heap state free(p) ends in; for n > 0, realloc(null, n) returns the pointer
\* malloc(n) returns and ends in the heap state malloc(n) ends in.
ReallocZeroIsFree(p) ==
    /\ realloc(H, p, 0, fresh) # {}
    /\ \A o \in realloc(H, p, 0, fresh) :
           o.ret = NULL /\ o.h = free(H, p) /\ ~o.trap

ReallocNullIsMalloc(n) ==
    /\ realloc(H, NULL, n, fresh) # {}
    /\ \A o \in realloc(H, NULL, n, fresh) :
           /\ o.ret = malloc(H, n, fresh).ret
           /\ o.h = malloc(H, n, fresh).h
           /\ ~o.trap

C13_ReallocDelegates ==
    Ready => /\ \A p \in live \cup {NULL} : ReallocZeroIsFree(p)
             /\ \A n \in Requests : ReallocNullIsMalloc(n)

\* the caller holds a block whose release coalesces, and a request can be served
C13_Witness ==
    /\ Ready
    /\ \E p \in live : GET_PREALLOC(H, GET_HEADER(p)) = 0 /\ ReallocZeroIsFree(p)
    /\ \E n \in Requests : malloc(H, n, fresh).ret # NULL /\ ReallocNullIsMalloc(n)

\* C14: a second mm_init, with no other call and no reset of the provider in
\* between, returns 0 and leaves the heap extent, heap_ptr, the prologue and
\* epilogue words and the empty free list as the first call left them.
JustInited == inited /\ Len(mem) = 6

C14_InitIdempotent ==
    JustInited => (mm_init(H, fresh).ret = 0 /\ mm_init(H, fresh).h = H)

\* the heap after malloc(n) three times and free of the second pointer, with
\* the three pointers
ThenFree(a, b, c) == [h |-> free(c.h, b.ret), first |-> a.ret, mid |-> b.ret, last |-> c.ret]
ThenThird(a, b, n) == ThenFree(a, b, malloc(b.h, n, fresh))
ThenSecond(a, n) == ThenThird(a, malloc(a.h, n, fresh), n)
ThreeThenFreeMiddle(h, n) == ThenSecond(malloc(h, n, fresh), n)

MiddleFreed(r, size) ==
    /\ r.first # NULL /\ r.mid # NULL /\ r.last # NULL
    /\ IsFree(r.h, r.mid)
    /\ GET_SIZE(r.h, GET_HEADER(r.mid)) = size
    /\ r.mid \in SeqSet(Listed(r.h))

\* C15 as stated: from mm_init, after malloc(32), malloc(32), malloc(32) and
\* free of the second pointer, the freed middle block has size 48 and is on
\* the free list.
C15_Original == JustInited => MiddleFreed(ThreeThenFreeMiddle(H, 32), 48)

\* C15 as amended: from mm_init, after malloc(32), malloc(32), malloc(32) and
\* free of the second pointer, the freed middle block has size 40 (32 bytes of
\* payload and the header word, rounded up to a multiple of 8) and is on the
\* free list.
C15_MiddleBlockIs40 == JustInited => MiddleFreed(ThreeThenFreeMiddle(H, 32), 40)

\* the heap holds three blocks of 40 bytes, the middle one free, the others held
C15_Witness ==
    /\ inited /\ Len(Blocks(H)) = 4
    /\ \A i \in 2..4 : GET_SIZE(H, GET_HEADER(Blocks(H)[i])) = 40
    /\ IsFree(H, Blocks(H)[3]) /\ Blocks(H)[3] \in SeqSet(Listed(H))
    /\ live = {Blocks(H)[2], Blocks(H)[4]}

\* the requests the two size adjustments are compared on: the small ones and
\* the largest ones, -k standing for 2^64 - k
MaxSmall == 64
MaxWrap == 40
AdjustInputs == (1..MaxSmall) \cup {0 - k : k \in 1..MaxWrap}

BothAligned(n) == adjust_size(n) % DSIZE = 0 /\ adjust_size_basic(n) % DSIZE = 0

\* C16 as stated: for every request n >= 1, the adjusted block size of mm.c,
\* max(16, round_up_8(n + 4)), is strictly smaller than the adjusted block size
\* of the basic variant, round_up_8(n + 8), and both are multiples of 8.
C16_Original ==
    Ready => \A n \in AdjustInputs :
                 ULT(adjust_size(n), adjust_size_basic(n)) /\ BothAligned(n)

\* C16 as amended: for every request n >= 1 both adjusted sizes are multiples
\* of 8, and for every n from 1 to 2^64 - 16 the adjusted block size of mm.c is
\* not larger than that of the basic variant (the two are equal for n <= 8 and
\* whenever n mod 8 is 0, 5, 6 or 7).
NotLarger(n) ==
    /\ BothAligned(n)
    /\ ULT(n, 0 - 15) => ~ULT(adjust_size_basic(n), adjust_size(n))
    /\ (n > 0 /\ (n <= DSIZE \/ (n - 1) % DSIZE >= WSIZE))
           => adjust_size(n) = adjust_size_basic(n)

C16_NotLarger == Ready => \A n \in AdjustInputs : NotLarger(n)

\* a block of the size adjusted from a request of 32 bytes is held: 40 bytes,
\* as in the basic variant, while a request of 12 takes 16 against 24
C16_Witness ==
    /\ Ready /\ {12, 32} \subseteq AdjustInputs
    /\ \E p \in live : GET_SIZE(H, GET_HEADER(p)) = adjust_size(32)
    /\ adjust_size(32) = adjust_size_basic(32)
    /\ ULT(adjust_size(12), adjust_size_basic(12))

(***************************************************************************)
(* Placement, as the claims describe it: over a free list L (a sequence    *)
(* of block pointers in list order) and an adjusted size s                 *)
(***************************************************************************)
PlaceSizes == {16, 24, 40, 50, 56, 104}

Min(S) == CHOOSE x \in S : \A y \in S : x <= y

SizeAt(h, L, i) == GET_SIZE(h, GET_HEADER(L[i]))
ListSizes(h, L) == [i \in 1..Len(L) |-> SizeAt(h, L, i)]

\* the single list of mm.c, and list k of the segregated variant
MmList(h) == chain(h, h.free_blks[0], Len(h.mem) + 1)
SegList(h, k) == chain(h, h.free_blks[k], Len(h.mem) + 1)

Fits(h, L, s) == {i \in 1..Len(L) : ~ULT(SizeAt(h, L, i), s)}
NonFits(h, L, s) == (1..Len(L)) \ Fits(h, L, s)
UpTo(S, i) == Cardinality({j \in S : j <= i})

\* the block at which the count of fitting blocks reaches max
FitStops(h, L, s, max) == {i \in Fits(h, L, s) : UpTo(Fits(h, L, s), i) = max}

\* the non-fitting blocks met when more than MAX_NFIT non-fitting blocks have
\* been counted from the head and a fitting block has been met
NfitStops(h, L, s) ==
    {i \in NonFits(h, L, s) :
        UpTo(NonFits(h, L, s), i) > MAX_NFIT /\ UpTo(Fits(h, L, s), i) >= 1}

\* the same, counting only the non-fitting blocks after the first fitting one
\* and stopping at the MAX_NFIT-th
NfitStopsAfterFit(h, L, s) ==
    {i \in NonFits(h, L, s) :
        /\ UpTo(Fits(h, L, s), i) >= 1
        /\ Cardinality({j \in NonFits(h, L, s) : Min(Fits(h, L, s)) < j /\ j <= i})
               >= MAX_NFIT}

\* the positions examined when the walk stops at the first of stops
Until(L, stops) == 1..(IF stops = {} THEN Len(L) ELSE Min(stops))

\* the smallest block among positions E, the earliest of equal sizes; NULL if none
Best(h, L, E) ==
    IF E = {} THEN NULL
    ELSE L[CHOOSE i \in E : \A j \in E :
               \/ SizeAt(h, L, i) < SizeAt(h, L, j)
               \/ SizeAt(h, L, i) = SizeAt(h, L, j) /\ i <= j]

ExaminedFits(h, L, s) ==
    Fits(h, L, s) \cap Until(L, FitStops(h, L, s, MAX_FIT) \cup NfitStops(h, L, s))

\* C17: in mm.c, _allocate(s) over the free list returns a free block of size
\* >= s that is the smallest of the fitting blocks examined, the earliest among
\* equal sizes; the examination stops once the 6th fitting block has been
\* examined; a miss is returned only when no block of the list has size >= s.
\* For the list order {48, 64, 32, 40, 56, 72, 96, 40}, s = 40 yields the first
\* block of size 40 and s = 50 the block of size 56.
BestFitOfExamined(s) ==
    /\ _allocate(H, s) = Best(H, MmList(H), ExaminedFits(H, MmList(H), s))
    /\ _allocate(H, s) = NULL => Fits(H, MmList(H), s) = {}
    /\ _allocate(H, s) # NULL =>
           \E i \in Fits(H, MmList(H), s) :
               /\ MmList(H)[i] = _allocate(H, s)
               /\ UpTo(Fits(H, MmList(H), s), i) <= MAX_FIT
               /\ IsFree(H, MmList(H)[i])

ExampleYields ==
    ListSizes(H, MmList(H)) = ExampleList =>
        /\ _allocate(H, 40) = MmList(H)[4]
        /\ _allocate(H, 50) = MmList(H)[5]

C17_BestFitOfFirstSix ==
    (inited /\ variant = "mm") =>
        (ExampleYields /\ \A s \in PlaceSizes : BestFitOfExamined(s))

\* from the example list, a request adjusted to 40 has been given the first
\* block of size 40
C17_Witness ==
    /\ inited /\ variant = "mm"
    /\ ListSizes(H, MmList(H)) = <<48, 64, 32, 56, 72, 96, 40>>
    /\ carved_ptr(ExampleList, 4) \in live
    /\ GET_SIZE(H, GET_HEADER(carved_ptr(ExampleList, 4))) = 40

\* C18 as stated: in mm.c, _allocate returns best early only once 28
\* non-fitting blocks have been met after the first fitting block; the
\* non-fitting blocks walked before the first fit do not count.
C18_Original ==
    (inited /\ variant = "mm") =>
        \A s \in PlaceSizes :
            _allocate(H, s) =
                Best(H, MmList(H),
                     Fits(H, MmList(H), s)
                         \cap Until(MmList(H), FitStops(H, MmList(H), s, MAX_FIT)
                                                   \cup NfitStopsAfterFit(H, MmList(H), s)))

\* C18 as amended: in mm.c, _allocate returns best early at a non-fitting
\* block when, counting from the head of the list and that block included,
\* more than 28 non-fitting blocks have been met and at least one fitting
\* block has been found; the non-fitting blocks walked before the first fit
\* count.  Without such a block and without a 6th fitting block the whole
\* list is examined.
StopsAtNfit(s) ==
    /\ NfitStops(H, MmList(H), s) # {}
    /\ \A i \in FitStops(H, MmList(H), s, MAX_FIT) : Min(NfitStops(H, MmList(H), s)) < i

NfitRule(s) ==
    /\ StopsAtNfit(s) =>
           _allocate(H, s) =
               Best(H, MmList(H),
                    Fits(H, MmList(H), s) \cap (1..Min(NfitStops(H, MmList(H), s))))
    /\ (NfitStops(H, MmList(H), s) = {} /\ FitStops(H, MmList(H), s, MAX_FIT) = {}) =>
           _allocate(H, s) = Best(H, MmList(H), Fits(H, MmList(H), s))

C18_MoreThanMaxNfit == (inited /\ variant = "mm") => \A s \in PlaceSizes : NfitRule(s)

\* the list holds 28 non-fitting blocks, a block of 48, a non-fitting block and
\* a block of 40: for size 40 the walk stops at the 29th non-fitting block and
\* the block of 48 is returned
C18_Witness ==
    /\ inited /\ variant = "mm"
    /\ ListSizes(H, MmList(H)) = NfitBeforeList
    /\ StopsAtNfit(40)
    /\ _allocate(H, 40) = MmList(H)[MAX_NFIT + 1]
    /\ malloc(H, 36, fresh).ret = carved_ptr(NfitBeforeList, MAX_NFIT + 1)

\* the class of a size, as the claim defines it: the first threshold not below
\* it, else class 17
ClassOf(s) ==
    IF \E i \in 1..max_level : s <= threshold[i]
    THEN Min({i \in 1..max_level : s <= threshold[i]}) - 1
    ELSE max_level

\* the classes from the class of s on that hold a fitting block
FitClasses(h, s) == {k \in ClassOf(s)..max_level : Fits(h, SegList(h, k), s) # {}}

ClassExamples ==
    /\ _get_level(adjust_size(100)) = ClassOf(adjust_size(100))
    /\ threshold[_get_level(adjust_size(100)) + 1] = 128
    /\ threshold[_get_level(adjust_size(5000)) + 1] = 8192
    /\ \A s \in PlaceSizes : _get_level(s) = ClassOf(s)

\* C19 as stated: in the segregated variant, _allocate(s) starts at class
\* class_of(s), examines no lower class, visits the classes in increasing order
\* and returns the smallest fitting block of the first class that holds a fit;
\* allocate(100) starts in the class of threshold 128 and allocate(5000) in
\* the class of threshold 8192.
SmallestOfFirstClass(s) ==
    _allocate(H, s) =
        IF FitClasses(H, s) = {} THEN NULL
        ELSE Best(H, SegList(H, Min(FitClasses(H, s))),
                  Fits(H, SegList(H, Min(FitClasses(H, s))), s))

C19_Original ==
    (inited /\ variant = "seg") =>
        (ClassExamples /\ \A s \in PlaceSizes : SmallestOfFirstClass(s))

\* C19 as amended: as stated, except that the block returned is the smallest
\* among the first 42 fitting blocks, in list order, of the first class that
\* holds a fit (the earliest of equal sizes): the examination of that class
\* stops at its 42nd fitting block.
SmallestOfFirst42(s) ==
    _allocate(H, s) =
        IF FitClasses(H, s) = {} THEN NULL
        ELSE Best(H, SegList(H, Min(FitClasses(H, s))),
                  Fits(H, SegList(H, Min(FitClasses(H, s))), s)
                      \cap Until(SegList(H, Min(FitClasses(H, s))),
                                 FitStops(H, SegList(H, Min(FitClasses(H, s))), s,
                                          SEG_MAX_FIT)))

C19_SmallestOfFirstClass ==
    (inited /\ variant = "seg") =>
        (ClassExamples /\ \A s \in PlaceSizes : SmallestOfFirst42(s))

\* a request of 100 bytes has been given the block of 104 bytes, which came
\* after the block of 128 in the list of the class of threshold 128
C19_Witness ==
    /\ inited /\ variant = "seg"
    /\ ListSizes(H, SegList(H, 3)) = <<128>>
    /\ ListSizes(H, SegList(H, 2)) = <<64>>
    /\ carved_ptr(SegClassList, 2) \in live
    /\ GET_SIZE(H, GET_HEADER(carved_ptr(SegClassList, 2))) = 104

\* the adjusted sizes handed to _build
BuildSizes == {16, 24, 32, 40, 48, 56, 64, 72, 80}

Split(bp, s) ==
    /\ GET_SIZE(_build(H, bp, s), GET_HEADER(bp)) = s
    /\ ~IsFree(_build(H, bp, s), bp)
    /\ IsFree(_build(H, bp, s), bp + s)
    /\ GET_SIZE(_build(H, bp, s), GET_HEADER(bp + s)) = GET_SIZE(H, GET_HEADER(bp)) - s
    /\ GET_SIZE(H, GET_HEADER(bp)) - s >= 24
    /\ bp + s \in SeqSet(Listed(_build(H, bp, s)))
    /\ bp \notin SeqSet(Listed(_build(H, bp, s)))

Whole(bp, s) ==
    /\ GET_SIZE(_build(H, bp, s), GET_HEADER(bp)) = GET_SIZE(H, GET_HEADER(bp))
    /\ ~IsFree(_build(H, bp, s), bp)
    /\ GET_SIZE(H, GET_HEADER(bp)) <= s + ESIZE
    /\ GET_PREALLOC(_build(H, bp, s), GET_HEADER(SUCC_BLK(H, bp))) = 2
    /\ bp \notin SeqSet(Listed(_build(H, bp, s)))
    /\ SeqSet(Listed(_build(H, bp, s))) = SeqSet(Listed(H)) \ {bp}

\* C20: _build(bp, s) on a free block of size blksize >= s splits exactly when
\* blksize - s > 16: the block is then allocated with size s and the rest is a
\* free block of size blksize - s (at least 24) on the free list; otherwise the
\* whole block is allocated, its size lies between s and s + 16, and the
\* PREV_ALLOC bit of its successor is set.
C20_SplitOver16 ==
    Ready =>
        \A bp \in FreeBlocks(H) : \A s \in BuildSizes :
            s <= GET_SIZE(H, GET_HEADER(bp)) =>
                IF GET_SIZE(H, GET_HEADER(bp)) - s > ESIZE
                THEN Split(bp, s) ELSE Whole(bp, s)

\* a free block of 80 bytes is split by a request adjusted to 40, and taken
\* whole by one adjusted to 64, while a block is held
C20_Witness ==
    /\ Ready /\ live # {}
    /\ \E bp \in FreeBlocks(H) :
           /\ GET_SIZE(H, GET_HEADER(bp)) = 80
           /\ Split(bp, 40)
           /\ Whole(bp, 64)
           /\ malloc(H, 32, fresh).ret = bp
           /\ malloc(H, 32, fresh).h = _build(H, bp, 40)

\* the request sizes examined at each heap; -1 stands for 2^64 - 1
ExtendRequests == {1, 12, 32, 60, 100, 0 - 1}

NoFreeBlockFits(h, s) == \A bp \in FreeBlocks(h) : ULT(GET_SIZE(h, GET_HEADER(bp)), s)

ExtendsOnce(r, s) ==
    /\ r.sbrk \in {0, 1}
    /\ r.sbrk = 1 => NoFreeBlockFits(H, s)
    /\ r.refused => (r.sbrk = 1 /\ r.ret = NULL /\ mem_brk(r.h) = mem_brk(H))
    /\ r.sbrk = 0 => mem_brk(r.h) = mem_brk(H)
    /\ (r.sbrk = 1 /\ ~r.refused /\ variant = "mm") => mem_brk(r.h) - mem_brk(H) = s

\* C21: each allocate call asks the provider for an extension at most once,
\* not again after a refusal, and only when no free block of size >= s is in
\* any free list; in mm.c that one extension grows the heap by exactly s
\* bytes, s being the adjusted size.
C21_ExtendsAtMostOnce ==
    Ready => \A n \in ExtendRequests : ExtendsOnce(malloc(H, n, fresh), adjust_size(n))

\* two blocks of 40 bytes were obtained by two extensions of 40 bytes and are
\* held: a request of 60 bytes extends the heap once more, by 64 bytes, and a
\* request of 100 bytes is refused by the provider and returns NULL
C21_Witness ==
    /\ Ready /\ variant = "mm"
    /\ mem_brk(H) - HeapLo = 6 * WSIZE + 2 * 40
    /\ Cardinality(live) = 2
    /\ malloc(H, 60, fresh).sbrk = 1 /\ ~malloc(H, 60, fresh).refused
    /\ mem_brk(malloc(H, 60, fresh).h) - mem_brk(H) = 64
    /\ malloc(H, 100, fresh).refused /\ malloc(H, 100, fresh).ret = NULL

\* the word addresses of the bytes a caller may use in the block of p
Payload(h, p) == {p + WSIZE * i : i \in 0..(capacity(h, p) \div WSIZE - 1)}

\* the header words of the heap walk, the epilogue word included
Headers(h) == {GET_HEADER(bp) : bp \in SeqSet(Blocks(h))} \cup {h.heap_end}

\* the words of block bp, header included
BlockWords(h, bp) ==
    {GET_HEADER(bp) + WSIZE * i : i \in 0..(GET_SIZE(h, GET_HEADER(bp)) \div WSIZE - 1)}

PayloadInHeap(h, p) ==
    /\ capacity(h, p) >= DSIZE + WSIZE
    /\ \A a \in Payload(h, p) :
           /\ a >= SUCC_BLK(h, prologue(h)) /\ a < h.heap_end
           /\ InHeap(h, a)
           /\ a \notin Headers(h)
           /\ \A bp \in FreeBlocks(h) : a \notin BlockWords(h, bp)

\* C22: after any sequence of operations the payload ranges [p, p + capacity)
\* of the live allocations are pairwise disjoint, lie inside the heap between
\* the prologue and the epilogue word, and overlap no block header and no free
\* block.
C22_PayloadsDisjoint ==
    Ready =>
        /\ \A p \in live : PayloadInHeap(H, p)
        /\ \A p \in live : \A q \in live \ {p} : Payload(H, p) \cap Payload(H, q) = {}

\* two allocations are live on both sides of a free block
C22_Witness ==
    /\ Ready
    /\ \E p \in live : \E q \in live :
           /\ SUCC_BLK(H, p) \in FreeBlocks(H)
           /\ SUCC_BLK(H, SUCC_BLK(H, p)) = q
           /\ PayloadInHeap(H, p) /\ PayloadInHeap(H, q)
           /\ Payload(H, p) \cap Payload(H, q) = {}

\* the calls on pointers other than p leave the payload of p as it is
OthersKeep(p) ==
    /\ \A n \in Requests : SamePayload(malloc(H, n, fresh).h, p)
    /\ \A a \in CallocArgs : \A o \in calloc(H, a[1], a[2], fresh) : SamePayload(o.h, p)
    /\ \A q \in live \ {p} : SamePayload(free(H, q), p)
    /\ \A q \in (live \ {p}) \cup {NULL} : \A n \in Requests \cup {0} :
           \A o \in realloc(H, q, n, fresh) : SamePayload(o.h, p)

\* C23: while p is held (returned by allocate or reallocate and not yet passed
\* to deallocate or reallocate), no operation on other pointers (allocate with
\* or without split or extension, deallocate in any coalescing case,
\* reallocate) changes a byte of p's payload, the last word of p's block, where
\* a footer would sit, included.
C23_OthersKeepPayload == Ready => \A p \in live : OthersKeep(p)

\* p is held at the end of the heap, after a free block, a held block q and
\* another free block: the release of q merges three blocks up to the header
\* of p and leaves the payload of p as it is, as the other calls do
C23_Witness ==
    /\ Ready
    /\ \E p \in live : \E q \in live :
           /\ SUCC_BLK(H, SUCC_BLK(H, q)) = p
           /\ IsFree(H, SUCC_BLK(H, q))
           /\ GET_PREALLOC(H, GET_HEADER(q)) = 0
           /\ GET_HEADER(SUCC_BLK(H, p)) = heap_end
           /\ GET_SIZE(free(H, q), GET_HEADER(PRED_BLK(H, q))) = 120
           /\ OthersKeep(p)

\* list k: the blocks reached from its head by the links to the successor
FreeList(h, k) == chain(h, h.free_blks[k], Len(h.mem) + 1)

\* the offsets kept in the two link words of a free block
PrevOffset(h, bp) == READ(h, bp)
NextOffset(h, bp) == READ(h, bp + WSIZE)

WellLinked(h, L) ==
    /\ Len(L) <= Len(h.mem)
    /\ Cardinality(SeqSet(L)) = Len(L)
    /\ \A i \in 1..Len(L) :
           /\ InHeap(h, L[i]) /\ InHeap(h, L[i] + WSIZE)
           /\ L[i] - h.heap_ptr # 0
           /\ PrevOffset(h, L[i]) = (IF i = 1 THEN 0 ELSE L[i - 1] - h.heap_ptr)
           /\ NextOffset(h, L[i]) = (IF i = Len(L) THEN 0 ELSE L[i + 1] - h.heap_ptr)

\* C24: after any sequence of public operations each free list is a
\* well-formed doubly-linked list: the prev offset of the head is 0, the prev
\* offset of the successor of a listed block b designates b, the chain has no
\* cycle and ends in a next offset of 0, and no listed block is at offset 0
\* from the base anchor.
C24_ListsWellLinked == inited => \A k \in 0..max_level : WellLinked(H, FreeList(H, k))

\* from the example list, the block of 56 bytes has been taken out of the
\* middle of the list: its two neighbours in the list are linked to each other
C24_Witness ==
    /\ inited /\ variant = "mm"
    /\ ListSizes(H, FreeList(H, 0)) = <<48, 64, 32, 40, 72, 96, 40>>
    /\ carved_ptr(ExampleList, 5) \in live
    /\ PrevOffset(H, FreeList(H, 0)[5]) = FreeList(H, 0)[4] - heap_ptr
    /\ NextOffset(H, FreeList(H, 0)[4]) = FreeList(H, 0)[5] - heap_ptr
    /\ WellLinked(H, FreeList(H, 0))

(***************************************************************************)
(* The calls of _delete_free_block a public call makes: a sequence of      *)
(* pairs <<heap state at the call, block handed over>>, in call order      *)
(***************************************************************************)
\* _merge_free_blocks(ptr)
merge_deletes(h, ptr) ==
    LET pred_alloc == GET_PREALLOC(h, GET_HEADER(ptr))
        succ_alloc == GET_ALLOC(h, SUCC_HEADER(h, ptr))
    IN  IF pred_alloc # 0 /\ succ_alloc # 0 THEN <<>>
        ELSE IF pred_alloc # 0 THEN << <<h, SUCC_BLK(h, ptr)>> >>
        ELSE IF succ_alloc # 0 THEN << <<h, PRED_BLK(h, ptr)>> >>
        ELSE << <<h, PRED_BLK(h, ptr)>>,
                <<_delete_free_block(h, PRED_BLK(h, ptr)), SUCC_BLK(h, ptr)>> >>

\* free(ptr): the header and footer are written, then the block is merged
free_deletes(h, ptr) ==
    IF ptr = NULL THEN <<>>
    ELSE merge_deletes(
             WRITE_FOOTER(WRITE_HEADER(h, ptr, PACK(GET_SIZE(h, GET_HEADER(ptr)),
                                                    GET_PREALLOC(h, GET_HEADER(ptr)))),
                          ptr, PACK(GET_SIZE(h, GET_HEADER(ptr)), 0)),
             ptr)

\* _build(ptr, size): the block is unlinked first; the rest of a split is merged
build_deletes(h, ptr, size) ==
    IF ptr = NULL THEN <<>>
    ELSE
        LET split_rest(h3, rest) ==
                merge_deletes(
                    WRITE_FOOTER(WRITE_HEADER(h3, SUCC_BLK(h3, ptr), PACK(rest, 2)),
                                 SUCC_BLK(h3, ptr), PACK(rest, 0)),
                    SUCC_BLK(h3, ptr))
            deleted(h1) ==
                LET blksize == GET_SIZE(h1, GET_HEADER(ptr))
                    prealloc == GET_PREALLOC(h1, GET_HEADER(ptr))
                IN  IF ULT(ESIZE, blksize - size)
                    THEN split_rest(
                             WRITE_FOOTER(WRITE_HEADER(h1, ptr, PACK(size, BitOr(prealloc, 1))),
                                          ptr, PACK(size, 1)),
                             blksize - size)
                    ELSE <<>>
        IN  << <<h, ptr>> >> \o deleted(_delete_free_block(h, ptr))

\* _extend_heap(words): the new block is written, then merged
extend_deletes(h, words, fill) ==
    LET extend_size == extend_bytes(words)
        ptr == mem_brk(h)
        epilogue(h4) == merge_deletes(WRITE(h4, h4.heap_end, PACK(0, 1)), ptr)
        new_end(h3) == epilogue([h3 EXCEPT !.heap_end = GET_HEADER(SUCC_BLK(h3, ptr))])
        grown(h1) ==
            new_end(WRITE_FOOTER(
                        WRITE_HEADER(h1, ptr, PACK(extend_size, GET_PREALLOC(h1, h1.heap_end))),
                        ptr, PACK(extend_size, 0)))
    IN  IF ~mem_sbrk_ok(h, extend_size) THEN <<>>
        ELSE grown(mem_sbrk(h, extend_size, fill))

\* malloc(n)
malloc_deletes(h, n, fill) ==
    LET size == adjust_size(n)
        extended(e) ==
            extend_deletes(h, size \div WSIZE, fill)
                \o (IF e.ptr = NULL THEN <<>> ELSE build_deletes(e.h, e.ptr, size))
        placed(ptr) ==
            IF ptr # NULL THEN build_deletes(h, ptr, size)
            ELSE extended(_extend_heap(h, size \div WSIZE, fill))
    IN  IF n = 0 THEN <<>> ELSE placed(_allocate(h, size))

\* realloc(oldptr, n) with both non-null: malloc, the copy, then free(oldptr)
realloc_deletes(h, oldptr, n, fill) ==
    LET after_malloc(m) ==
            IF m.ret = NULL THEN <<>>
            ELSE free_deletes(
                     memcpy(m.h, m.ret, oldptr,
                            copy_bytes(GET_SIZE(m.h, GET_HEADER(oldptr)),
                                       GET_SIZE(m.h, GET_HEADER(m.ret)))),
                     oldptr)
    IN  malloc_deletes(h, n, fill) \o after_malloc(malloc(h, n, fill))

\* the calls of _delete_free_block made by the public calls possible at heap h
DeleteCalls(h) ==
    UNION {SeqSet(malloc_deletes(h, n, fresh)) : n \in ExtendRequests}
    \cup UNION {SeqSet(free_deletes(h, q)) : q \in live}
    \cup UNION {SeqSet(realloc_deletes(h, q, n, fresh)) : q \in live, n \in {12, 60}}

\* every listed block is in the list of the class of its header size, within
\* the bounds of that class
InClass(size, k) ==
    /\ _get_level(size) = k
    /\ k < max_level => size <= threshold[k + 1]
    /\ k > 0 => size > threshold[k]

ListedInClass(h) ==
    \A k \in 0..max_level : \A i \in 1..Len(SegList(h, k)) :
        InClass(SizeAt(h, SegList(h, k), i), k)

\* the block handed to _delete_free_block is linked in the list of its class
DeleteInClass(c) ==
    /\ ListedInClass(c[1])
    /\ c[2] \in SeqSet(SegList(c[1], _get_level(GET_SIZE(c[1], GET_HEADER(c[2])))))

\* C25 as stated: in the segregated variant, after any sequence of public
\* operations and at every call of _delete_free_block, each free block is
\* linked in the list of the class _get_level gives for its current header
\* size (class i < 17 holds only sizes <= T[i] and > T[i-1]); no block is
\* unlinked from, or left in, a list of a different class.
C25_Original ==
    (Ready /\ variant = "seg") =>
        /\ FreeListOK(H) /\ ListedInClass(H)
        /\ \A c \in DeleteCalls(H) : DeleteInClass(c) /\ FreeListOK(c[1])

\* C25 as amended: after any sequence of public operations each free block is
\* linked in the list of the class of its header size, and at every call of
\* _delete_free_block every listed block is in the list of the class of its
\* header size, the block handed over included; the block being released,
\* appended or split off is marked free but in no list while its neighbours
\* are unlinked.
C25_ListedInClass ==
    (Ready /\ variant = "seg") =>
        /\ FreeListOK(H) /\ ListedInClass(H)
        /\ \A c \in DeleteCalls(H) : DeleteInClass(c)

\* a held block of 40 bytes lies between two free blocks of 40 bytes, both in
\* the class of threshold 48: its release unlinks both from that class and
\* links the merged block of 120 bytes in the class of threshold 128
C25_Witness ==
    /\ Ready /\ variant = "seg"
    /\ \E q \in live :
           /\ Len(free_deletes(H, q)) = 2
           /\ \A i \in 1..2 : DeleteInClass(free_deletes(H, q)[i])
           /\ ListSizes(H, SegList(H, 1)) = <<40, 40>>
           /\ ListSizes(free(H, q), SegList(free(H, q), 1)) = <<>>
           /\ ListSizes(free(H, q), SegList(free(H, q), 3)) = <<120>>

====
